---- MODULE Spec2Model ----
(***************************************************************************)
(* A model of sampler/sampler.py: the RejectionSampler class, its draw()   *)
(* accept/reject loop and its sample(n, seed) batch routine, together with *)
(* the parts of NumPy the two methods rest on (the shared generator,       *)
(* uniform, log, empty and item assignment).                               *)
(*                                                                         *)
(* Log-densities live on an integer grid around MIN; -inf is the grid      *)
(* value NegInf, below every other one.  A candidate is a record           *)
(* [seq, val]: a Python scalar b is [seq |-> FALSE, val |-> <<b>>], a      *)
(* length-d sequence is [seq |-> TRUE, val |-> <<..d values..>>].          *)
(***************************************************************************)
EXTENDS Integers, Sequences, FiniteSets, TLC

VARIABLES
    propose_func,      \* self.propose_func: [shared, table]
    propose_logpdf,    \* self.propose_logpdf: location -> log q
    target_logpdf,     \* self.target_logpdf: location -> log p
    samples,           \* self.samples: None or a buffer
    rng,               \* state of the shared generator np.random
    pc,                \* position of control in sample()/draw()
    n,                 \* argument n of the running (or last) sample() call
    seed,              \* argument seed of that call
    i,                 \* index the call is filling
    first,             \* local `first` of sample()
    candidate_sample,  \* local of draw()
    upper,             \* local of draw()
    log_threshold,     \* local of draw()
    outcome,           \* how the last call ended
    callsLeft,         \* sample() calls the caller still makes
    accepted,          \* history: values draw() returned in this call
    writeLog,          \* history: indices assigned in this call
    samples0,          \* history: self.samples when the call began
    drawProposals,     \* history: propose_func calls of the running draw()
    tape,              \* history: generator outputs consumed by this call
    memo               \* history: first completed result per (n, seed)

vars == <<propose_func, propose_logpdf, target_logpdf, samples, rng, pc, n,
          seed, i, first, candidate_sample, upper, log_threshold, outcome,
          callsLeft, accepted, writeLog, samples0, drawProposals, tape, memo>>

-----------------------------------------------------------------------------
(* Bounds of the model *)

\* largest n passed to sample(); the smallest is -1
MaxN == 2
\* longest sequence the proposal sampler returns
MaxDim == 2
\* sample() calls made on one sampler
MaxCalls == 2
\* counters of the history saturate here
MaxCount == 2
\* period of the generator: np.random is a fixed deterministic algorithm,
\* modelled by a counter of this period
RngPeriod == 5

-----------------------------------------------------------------------------
(* Program constants and the value domains *)

\* MIN = np.log(np.finfo('float64').tiny), about -708.396
MIN == -708

\* seed=None
NoSeed == -1

\* a cell np.empty left unwritten: its content is indeterminate
Uninit == 0

\* log(0.0) = -inf
NegInf == MIN - 1000

Seeds == {0, 1}
NVals == (-1) .. MaxN
Vals == {1, 2}
Locs == Vals
LogDom == {NegInf, MIN - 1, MIN, MIN + 1}

Scalar(b) == [seq |-> FALSE, val |-> <<b>>]
Vector(d, b) == [seq |-> TRUE, val |-> [k \in 1 .. d |-> b + k - 1]]
\* the values a proposal sampler returns, in a fixed order: scalars first,
\* then the sequences by length
NumCands == Cardinality(Vals) * (MaxDim + 1)
CandAt(k) ==
    LET d == (k - 1) \div Cardinality(Vals)
        b == ((k - 1) % Cardinality(Vals)) + 1
    IN  IF d = 0 THEN Scalar(b) ELSE Vector(d, b)
Cands == {CandAt(k) : k \in 1 .. NumCands}
NoCand == [seq |-> FALSE, val |-> <<>>]

\* the point of the support a candidate sits at; the log-densities are
\* functions of it
Loc(x) == x.val[1]

Min2(a, b) == IF a < b THEN a ELSE b

-----------------------------------------------------------------------------
(* NumPy: the shared generator *)

\* np.random.seed(seed): the state is a function of the seed alone
SeedState(s) == s % RngPeriod

\* one output of the generator is its state; the state then advances
NextRng(r) == (r + 1) % RngPeriod

\* np.random.uniform(0.0, np.exp(upper)) followed by np.log, on the grid:
\* uniform returns 0.0 + exp(upper) * r with r in [0, 1).  r = 0 gives
\* threshold 0.0, whose log is -inf; the largest r gives a threshold that
\* rounds to exp(upper) (or whose log rounds to upper); any other r gives a
\* log strictly below upper.
Uniform(u, raw) ==
    IF raw = 0 THEN NegInf
    ELSE IF raw = RngPeriod - 1 THEN u
    ELSE u - 1

-----------------------------------------------------------------------------
(* NumPy: buffers *)

None == [shape |-> <<>>, rows |-> <<>>]

\* np.empty(n) / np.empty((n, d)): shape fixed by the first draw
Width(x) == IF x.seq THEN Len(x.val) ELSE 1
Empty(k, x) ==
    [shape |-> IF x.seq THEN <<k, Len(x.val)>> ELSE <<k>>,
     rows  |-> [r \in 1 .. k |-> [c \in 1 .. Width(x) |-> Uninit]]]

\* np.empty raises ValueError on a negative dimension
EmptyRaises(k) == k < 0

\* buf[idx] = x raises IndexError when idx is out of bounds for axis 0
IndexRaises(buf, idx) == idx >= buf.shape[1]

RowWidth(buf) == IF Len(buf.shape) = 2 THEN buf.shape[2] ELSE 1

\* buf[idx] = x either stores a row or raises ValueError.  A row of a 2-D
\* buffer takes whatever broadcasts to it: a scalar, a length-1 sequence, or
\* a sequence of the row's own length.  A cell of a 1-D buffer takes a
\* scalar; a length-1 sequence is converted when it is an ndarray and raises
\* when it is a list or tuple, and a candidate does not record which it is;
\* any longer sequence raises.
SetItemOutcomes(buf, x) ==
    IF Len(buf.shape) = 1
    THEN IF ~x.seq THEN {"stored"}
         ELSE IF Len(x.val) = 1 THEN {"stored", "ValueError"}
         ELSE {"ValueError"}
    ELSE IF x.seq /\ Len(x.val) # 1 /\ Len(x.val) # buf.shape[2]
         THEN {"ValueError"}
         ELSE {"stored"}

\* the row that buf[idx] = x stores
Coerce(buf, x) ==
    IF x.seq /\ Len(x.val) = RowWidth(buf) /\ Len(buf.shape) = 2
    THEN x.val
    ELSE [c \in 1 .. RowWidth(buf) |-> x.val[1]]

\* variant: every assignment lands on index 0
SetItemFirstRow(buf, idx, x) ==
    [buf EXCEPT !.rows = [buf.rows EXCEPT ![1] = Coerce(buf, x)]]

SetItem(buf, idx, x) ==
    [buf EXCEPT !.rows = [buf.rows EXCEPT ![idx + 1] = Coerce(buf, x)]]

-----------------------------------------------------------------------------
(* draw() *)

\* variant: the guard with > for >=
UnderflowGuardStrict(u) == u > MIN

\* `if upper >= MIN`
UnderflowGuard(u) == u >= MIN

\* variants: the test with <= for <, and with its sides exchanged
AcceptOrEqual(lt, v) == lt <= v
AcceptReversed(lt, v) == v < lt

\* `if log_threshold < self.target_logpdf(candidate_sample): break`
Accept(lt, v) == lt < v

\* self.propose_func(): a sampler driven by the shared generator returns
\* the table entry its output selects; any other sampler returns any value
\* of its table
ProposeOutcomes ==
    IF propose_func.shared
    THEN {propose_func.table[(rng % Len(propose_func.table)) + 1]}
    ELSE {propose_func.table[k] : k \in 1 .. Len(propose_func.table)}

TapeCap == 2 * RngPeriod * (MaxN + 1)

Consume(t) ==
    IF propose_func.shared /\ Len(t) < TapeCap THEN Append(t, rng) ELSE t

DrawPCs == {"propose", "threshold", "test"}

\* lines 51-56: candidate, its proposal log-density, the underflow guard
DrawPropose ==
    /\ pc = "propose"
    /\ \E x \in ProposeOutcomes :
          /\ candidate_sample' = x
          /\ upper' = propose_logpdf[Loc(x)]
          /\ pc' = IF UnderflowGuard(propose_logpdf[Loc(x)])
                   THEN "threshold" ELSE "propose"
    /\ rng' = IF propose_func.shared THEN NextRng(rng) ELSE rng
    /\ tape' = Consume(tape)
    /\ drawProposals' = Min2(drawProposals + 1, MaxCount)
    /\ UNCHANGED <<propose_func, propose_logpdf, target_logpdf, samples, n,
                   seed, i, first, log_threshold, outcome, callsLeft,
                   accepted, writeLog, samples0, memo>>

\* lines 57-58: threshold and its log
DrawThreshold ==
    /\ pc = "threshold"
    /\ log_threshold' = Uniform(upper, rng)
    /\ rng' = NextRng(rng)
    /\ tape' = Consume(tape)
    /\ pc' = "test"
    /\ UNCHANGED <<propose_func, propose_logpdf, target_logpdf, samples, n,
                   seed, i, first, candidate_sample, upper, outcome,
                   callsLeft, accepted, writeLog, samples0, drawProposals,
                   memo>>

\* lines 63-66: the acceptance test; on acceptance draw() returns
\* candidate_sample to line 90 (i = 0) or line 103 (i >= 1)
DrawTest ==
    /\ pc = "test"
    /\ IF Accept(log_threshold, target_logpdf[Loc(candidate_sample)])
       THEN /\ pc' = IF i = 0 THEN "alloc" ELSE "store"
            /\ first' = IF i = 0 THEN candidate_sample ELSE first
            /\ accepted' = Append(accepted, candidate_sample)
       ELSE /\ pc' = "propose"
            /\ UNCHANGED <<first, accepted>>
    /\ UNCHANGED <<propose_func, propose_logpdf, target_logpdf, samples, rng,
                   n, seed, i, candidate_sample, upper, log_threshold,
                   outcome, callsLeft, writeLog, samples0, drawProposals,
                   tape, memo>>

-----------------------------------------------------------------------------
(* sample(n, seed) *)

\* the locals die when the call ends
Leave(how) ==
    /\ pc' = "idle"
    /\ outcome' = how
    /\ i' = 0
    /\ first' = NoCand
    /\ candidate_sample' = NoCand
    /\ upper' = NegInf
    /\ log_threshold' = NegInf

\* variant: `if seed:` for `if seed is not None:`
SeedRngIfTruthy(s, r) == IF s # NoSeed /\ s # 0 THEN SeedState(s) ELSE r

\* lines 83-84: `if seed is not None: np.random.seed(seed)`
SeedRng(s, r) == IF s # NoSeed THEN SeedState(s) ELSE r

\* lines 83-90: seed the generator if a seed is given, enter the first draw
Call(k, s) ==
    /\ pc = "idle"
    /\ callsLeft > 0
    /\ callsLeft' = callsLeft - 1
    /\ n' = k
    /\ seed' = s
    /\ rng' = SeedRng(s, rng)
    /\ pc' = "propose"
    /\ i' = 0
    /\ outcome' = "running"
    /\ accepted' = <<>>
    /\ writeLog' = <<>>
    /\ samples0' = samples
    /\ drawProposals' = 0
    /\ tape' = <<>>
    /\ UNCHANGED <<propose_func, propose_logpdf, target_logpdf, samples,
                   first, candidate_sample, upper, log_threshold, memo>>

\* lines 91-98: allocate the buffer from the shape of `first`
Allocate ==
    /\ pc = "alloc"
    /\ IF EmptyRaises(n)
       THEN /\ Leave("ValueError")
            /\ UNCHANGED samples
       ELSE /\ samples' = Empty(n, first)
            /\ pc' = "store0"
            /\ UNCHANGED <<i, first, candidate_sample, upper, log_threshold,
                           outcome>>
    /\ UNCHANGED <<propose_func, propose_logpdf, target_logpdf, rng, n, seed,
                   callsLeft, accepted, writeLog, samples0, drawProposals,
                   tape, memo>>

\* after an assignment at index k: the next draw, or line 105
Continue(k) ==
    /\ i' = k + 1
    /\ pc' = IF k + 1 < n THEN "propose" ELSE "return"
    /\ drawProposals' = 0

\* line 101: self.samples[0] = first
StoreFirst ==
    /\ pc = "store0"
    /\ IF IndexRaises(samples, 0)
       THEN /\ Leave("IndexError")
            /\ UNCHANGED <<samples, writeLog, drawProposals>>
       ELSE \E o \in SetItemOutcomes(samples, first) :
               IF o = "ValueError"
               THEN /\ Leave("ValueError")
                    /\ UNCHANGED <<samples, writeLog, drawProposals>>
               ELSE /\ samples' = SetItem(samples, 0, first)
                    /\ writeLog' = Append(writeLog, 0)
                    /\ Continue(0)
                    /\ UNCHANGED <<first, candidate_sample, upper,
                                   log_threshold, outcome>>
    /\ UNCHANGED <<propose_func, propose_logpdf, target_logpdf, rng, n, seed,
                   callsLeft, accepted, samples0, tape, memo>>

\* line 103: self.samples[i] = self.draw()
StoreNext ==
    /\ pc = "store"
    /\ IF IndexRaises(samples, i)
       THEN /\ Leave("IndexError")
            /\ UNCHANGED <<samples, writeLog, drawProposals>>
       ELSE \E o \in SetItemOutcomes(samples, candidate_sample) :
               IF o = "ValueError"
               THEN /\ Leave("ValueError")
                    /\ UNCHANGED <<samples, writeLog, drawProposals>>
               ELSE /\ samples' = SetItem(samples, i, candidate_sample)
                    /\ writeLog' = Append(writeLog, i)
                    /\ Continue(i)
                    /\ UNCHANGED <<first, candidate_sample, upper,
                                   log_threshold, outcome>>
    /\ UNCHANGED <<propose_func, propose_logpdf, target_logpdf, rng, n, seed,
                   callsLeft, accepted, samples0, tape, memo>>

MemoKeys == (0 .. MaxN) \X Seeds
NoMemo == [buf |-> None, tape |-> <<>>, rng |-> 0, count |-> 0]

Remember(m) ==
    IF propose_func.shared /\ seed # NoSeed
    THEN [m EXCEPT ![<<n, seed>>] =
            IF @.count = 0
            THEN [buf |-> samples, tape |-> tape, rng |-> rng, count |-> 1]
            ELSE [@ EXCEPT !.count = Min2(@ + 1, MaxCount)]]
    ELSE m

\* line 105: return self.samples
Return ==
    /\ pc = "return"
    /\ Leave("returned")
    /\ memo' = Remember(memo)
    /\ UNCHANGED <<propose_func, propose_logpdf, target_logpdf, samples, rng,
                   n, seed, callsLeft, accepted, writeLog, samples0,
                   drawProposals, tape>>

-----------------------------------------------------------------------------
(* Specifications *)

\* lines 36-40: the state after construction, for a sampler built from one
\* of `funcs`, one of `qs` and one of `ps`
InitWith(funcs, qs, ps, calls) ==
    /\ propose_func \in funcs
    /\ propose_logpdf \in qs
    /\ target_logpdf \in ps
    /\ samples = None
    /\ rng \in 0 .. RngPeriod - 1
    /\ pc = "idle"
    /\ n = 0
    /\ seed = NoSeed
    /\ i = 0
    /\ first = NoCand
    /\ candidate_sample = NoCand
    /\ upper = NegInf
    /\ log_threshold = NegInf
    /\ outcome = "none"
    /\ callsLeft = calls
    /\ accepted = <<>>
    /\ writeLog = <<>>
    /\ samples0 = None
    /\ drawProposals = 0
    /\ tape = <<>>
    /\ memo = [k \in MemoKeys |-> NoMemo]

Tables == {<<a, b>> : a, b \in Cands}
\* for a sampler that may return either entry at any call the order of the
\* table does not matter
SortedTables ==
    {<<CandAt(jk[1]), CandAt(jk[2])>> :
        jk \in {q \in (1 .. NumCands) \X (1 .. NumCands) : q[1] <= q[2]}}
ScalarTables == {<<a, b>> : a, b \in {Scalar(b) : b \in Vals}}
Funcs(shared, tables) == {[shared |-> shared, table |-> t] : t \in tables}
AllLogPdfs == [Locs -> LogDom]
HighLogPdfs == [Locs -> {MIN, MIN + 1}]
FlatLogPdf == [l \in Locs |-> MIN + 1]

Next ==
    \/ \E k \in NVals, s \in Seeds \cup {NoSeed} : Call(k, s)
    \/ DrawPropose
    \/ DrawThreshold
    \/ DrawTest
    \/ Allocate
    \/ StoreFirst
    \/ StoreNext
    \/ Return

\* a proposal sampler with its own source of randomness returning values of
\* every shape, under a flat proposal density
Init == InitWith(Funcs(FALSE, SortedTables), {FlatLogPdf}, HighLogPdfs, MaxCalls)
Spec == Init /\ [][Next]_vars

\* one batch of scalar draws, under every pair of log-densities
InitDraw == InitWith(Funcs(FALSE, ScalarTables), AllLogPdfs, AllLogPdfs, 1)
SpecDraw == InitDraw /\ [][Next]_vars

\* one batch of scalar draws; the program, once called, keeps running, and
\* the proposal sampler's own randomness is fair: a candidate that could be
\* returned again and again is eventually returned
DrawProposeOf(x) == DrawPropose /\ candidate_sample' = x
FloorLogPdfs == [Locs -> {MIN - 1, MIN}]
ZeroLogPdfs == [Locs -> {NegInf, MIN, MIN + 1}]
Scalars == {Scalar(b) : b \in Vals}
InitFair == InitWith(Funcs(FALSE, ScalarTables), FloorLogPdfs, ZeroLogPdfs, 1)
FairSpec ==
    /\ InitFair
    /\ [][Next]_vars
    /\ WF_vars(DrawPropose)
    /\ WF_vars(DrawThreshold)
    /\ WF_vars(DrawTest)
    /\ WF_vars(Allocate)
    /\ WF_vars(StoreFirst)
    /\ WF_vars(StoreNext)
    /\ WF_vars(Return)
    /\ \A x \in Scalars : SF_vars(DrawProposeOf(x))

\* a proposal sampler driven by the shared generator
InitSeed == InitWith(Funcs(TRUE, Tables), {FlatLogPdf}, HighLogPdfs, MaxCalls)
SpecSeed == InitSeed /\ [][Next]_vars

-----------------------------------------------------------------------------
(* Properties of sample(): arguments, shapes, the stored buffer *)

Failed == outcome \in {"ValueError", "IndexError"}
Ended == pc = "idle" /\ outcome # "none"
SameShape(x, y) == x.seq = y.seq /\ Len(x.val) = Len(y.val)
FullyPopulated(buf) ==
    \A r \in 1 .. Len(buf.rows) :
        \A c \in 1 .. Len(buf.rows[r]) : buf.rows[r][c] # Uninit

\* C1: a sample() call with negative n ends in the invalid-argument error
\* without the proposal sampler having been invoked and without any draw
\* having returned.
C1_NegativeFailsBeforeDraw ==
    (Ended /\ n < 0) =>
        /\ outcome = "ValueError"
        /\ drawProposals = 0
        /\ accepted = <<>>

\* C2: sample(0) completes normally with a buffer of length 0 along the
\* first axis, without the proposal sampler having been invoked and without
\* any element having been written.
C2_ZeroReturnsEmpty ==
    (Ended /\ n = 0) =>
        /\ outcome = "returned"
        /\ samples.shape[1] = 0
        /\ drawProposals = 0
        /\ accepted = <<>>
        /\ writeLog = <<>>

\* C3: a draw is stored in the buffer only if it has the shape of the first
\* draw of the batch (scalar or sequence, and the same length); a draw of
\* any other shape fails the batch instead of being stored.
C3_MismatchFailsBatch ==
    \A k \in 1 .. Len(writeLog) :
        SameShape(accepted[writeLog[k] + 1], accepted[1])

\* C8: a completed sample(n) call with n >= 1 has made exactly n successful
\* draws and returns a buffer of shape (n,) or (n, d) - d the length of the
\* first draw - whose index k-1 holds the k-th accepted draw, each index
\* written exactly once, in order.
C8_LengthAndOrder ==
    (outcome = "returned" /\ n >= 1) =>
        /\ Len(accepted) = n
        /\ samples.shape =
              IF accepted[1].seq THEN <<n, Len(accepted[1].val)>> ELSE <<n>>
        /\ Len(samples.rows) = n
        /\ writeLog = [k \in 1 .. n |-> k - 1]
        /\ \A k \in 1 .. n :
              /\ samples.rows[k] = Coerce(samples, accepted[k])
              /\ SameShape(accepted[k], accepted[1]) =>
                    samples.rows[k] = accepted[k].val

C8_Witness ==
    /\ outcome = "returned"
    /\ n = 2
    /\ accepted[1].seq
    /\ Len(accepted[1].val) = 2
    /\ SameShape(accepted[2], accepted[1])
    /\ accepted[1] # accepted[2]

\* C9: whenever control is outside sample(), the stored buffer is absent or
\* fully populated, and a call that failed has left the buffer it found.
C9_StoredBufferWhole ==
    pc = "idle" =>
        /\ samples = None \/ FullyPopulated(samples)
        /\ Failed => samples = samples0

-----------------------------------------------------------------------------
(* Properties of draw(): the underflow guard and the acceptance test *)

Q(x) == propose_logpdf[Loc(x)]
P(x) == target_logpdf[Loc(x)]
Last(q) == q[Len(q)]
Written(r) == \E k \in 1 .. Len(writeLog) : writeLog[k] = r - 1
Unwritten(row) == \A c \in 1 .. Len(row) : row[c] = Uninit

\* C4 as stated: a candidate whose proposal log-density is at or below MIN
\* gets no threshold and no evaluation of the target, and is never
\* returned - so every candidate that reaches the threshold or the test,
\* and every returned one, lies strictly above MIN.
C4_AtOrBelowFloorResampled ==
    /\ pc \in {"threshold", "test"} => upper > MIN
    /\ \A k \in 1 .. Len(accepted) : Q(accepted[k]) > MIN

\* C4 as amended: a candidate whose proposal log-density is strictly below
\* MIN is resampled - no threshold is drawn for it, the target is not
\* evaluated on it and it is never returned - while a candidate at exactly
\* MIN passes the guard and goes on to the threshold and the test.
C4_BelowFloorResampled ==
    /\ [](pc \in {"threshold", "test"} =>
             upper = Q(candidate_sample) /\ upper >= MIN)
    /\ [](\A k \in 1 .. Len(accepted) : Q(accepted[k]) >= MIN)
    /\ [][pc = "propose" /\ pc' # pc => pc' = "threshold" /\ upper' >= MIN]_vars
    /\ [][pc = "propose" /\ pc' = pc =>
             /\ upper' < MIN
             /\ log_threshold' = log_threshold
             /\ accepted' = accepted
             /\ samples' = samples]_vars

C4_Witness ==
    /\ pc = "test"
    /\ upper = MIN
    /\ drawProposals = 2

\* C5: draw() returns a candidate only from the test of the iteration that
\* produced it: the candidate's own proposal log-density passed the guard,
\* the threshold was drawn under exp of that log-density, and its log is
\* strictly below the target log-density of that candidate; a candidate
\* failing the test is discarded.  Every row written into the buffer holds
\* such a returned candidate, and every other row is unwritten.
C5_AcceptedPassedTest ==
    /\ [](pc = "test" =>
             /\ upper = Q(candidate_sample)
             /\ upper >= MIN
             /\ log_threshold <= upper)
    /\ [][Len(accepted') > Len(accepted) =>
             /\ pc = "test"
             /\ accepted' = Append(accepted, candidate_sample)
             /\ log_threshold < P(candidate_sample)]_vars
    /\ [][pc = "test" /\ ~(log_threshold < P(candidate_sample)) =>
             /\ pc' \in {"test", "propose"}
             /\ accepted' = accepted
             /\ samples' = samples]_vars
    /\ [](\A k \in 1 .. Len(writeLog) :
             samples.rows[writeLog[k] + 1] =
                Coerce(samples, accepted[writeLog[k] + 1]))
    /\ [](samples # samples0 =>
             \A r \in 1 .. Len(samples.rows) :
                Written(r) \/ Unwritten(samples.rows[r]))

C5_Witness ==
    /\ pc = "store"
    /\ n = 2
    /\ drawProposals = 2
    /\ Len(accepted) = 2
    /\ accepted[1] # accepted[2]
    /\ samples.rows[1] = accepted[1].val

\* C6 as stated: with the proposal log-density equal to the target
\* log-density at every point, every draw() calls the proposal sampler
\* exactly once: no draw() is ever back at its first line after a proposal.
C6_EqualDensitiesAcceptFirst ==
    propose_logpdf = target_logpdf =>
        /\ drawProposals <= 1
        /\ pc = "propose" => drawProposals = 0

\* C6 as amended: with the proposal log-density equal to the target
\* log-density at every point, draw() returns the first candidate whose
\* log-density passes the underflow guard and whose threshold has a log
\* strictly below that log-density; a candidate is passed over only because
\* its log-density is below MIN or because the log of its threshold came
\* out equal to the log-density itself.
C6_EqualDensitiesAcceptAboveFloor ==
    propose_logpdf = target_logpdf =>
        /\ (pc = "propose" /\ drawProposals >= 1) =>
              upper < MIN \/ log_threshold = upper
        /\ pc \in {"alloc", "store"} =>
              /\ Last(accepted) = candidate_sample
              /\ log_threshold < upper
              /\ upper >= MIN

C6_Witness ==
    /\ propose_logpdf = target_logpdf
    /\ pc = "store"
    /\ drawProposals = 1
    /\ upper = MIN

-----------------------------------------------------------------------------
(* Seeding *)

\* C7: a sample(n, seed) call with a seed, on a sampler whose proposal takes
\* its randomness from the shared generator, starts consuming at the seeded
\* state and, when it completes, has consumed the same generator outputs,
\* left the generator in the same state and returned the same buffer as the
\* first completed call with that n and seed - whatever generator state and
\* stored buffer it found.
C7_SeededDeterministic ==
    (propose_func.shared /\ seed # NoSeed) =>
        /\ tape # <<>> => tape[1] = SeedState(seed)
        /\ outcome = "returned" =>
              /\ memo[<<n, seed>>].count >= 1
              /\ memo[<<n, seed>>].buf = samples
              /\ memo[<<n, seed>>].tape = tape
              /\ memo[<<n, seed>>].rng = rng

C7_Witness ==
    /\ propose_func.shared
    /\ outcome = "returned"
    /\ seed = 0
    /\ n = 2
    /\ memo[<<n, seed>>].count = 2
    /\ samples.rows[1] # samples.rows[2]

-----------------------------------------------------------------------------
(* Termination of draw() *)

Support == {propose_func.table[k] : k \in 1 .. Len(propose_func.table)}

\* no candidate of the proposal can ever pass: its log-density is below the
\* floor, or no threshold has a log below its target log-density
NoPass == \A x \in Support : Q(x) < MIN \/ P(x) = NegInf

\* some candidate the proposal can return now would pass the test with the
\* threshold the generator is about to give
PassPossible ==
    \E x \in Support : Q(x) >= MIN /\ Uniform(Q(x), rng) < P(x)

\* C10: draw() leaves its loop only from the acceptance test, with the test
\* passed, and sample() goes on running; inside the loop a next step always
\* exists (no cap).  With a proposal none of whose candidates can pass, a
\* call never ends.  And if at every iteration some candidate would pass
\* with the threshold at hand, then under fair random choices every draw()
\* returns and every sample(n) with n >= 1 returns.
C10_DrawReturnsOnlyByAccepting ==
    /\ [][(pc \in DrawPCs /\ pc' \notin DrawPCs) =>
             /\ pc = "test"
             /\ log_threshold < P(candidate_sample)
             /\ pc' \in {"alloc", "store"}
             /\ outcome' = "running"
             /\ accepted' = Append(accepted, candidate_sample)]_vars
    /\ [](pc \in DrawPCs =>
             ENABLED (DrawPropose \/ DrawThreshold \/ DrawTest))
    /\ [](NoPass => outcome \in {"none", "running"})
    /\ [](pc = "propose" => PassPossible) =>
             /\ (pc \in DrawPCs) ~> (pc \notin DrawPCs)
             /\ (outcome = "running" /\ n >= 1) ~> (outcome = "returned")

C10_Witness ==
    /\ pc = "store"
    /\ drawProposals = 2
    /\ i = 1
    /\ \E x \in Support : Q(x) < MIN

====
